---- MODULE Spec2Model ----
(***************************************************************************)
(* FeishuMarkdownConverter (nanobot/channels/feishu_markdown.py): the      *)
(* conversion of a markdown-it token stream into Feishu post lines.        *)
(*                                                                         *)
(* Strings are sequences of one-character strings, so that concatenation,  *)
(* split("\n") and rstrip("\n") are computed as Python computes them.      *)
(* Cursors are 0-based as in the source: At(s, i) is Python's s[i].        *)
(***************************************************************************)
EXTENDS Integers, Sequences, FiniteSets, TLC

VARIABLES tokens, i, content, pc, iters

vars == <<tokens, i, content, pc, iters>>

\* ------------------------------------------------------------------ bounds

\* Longest block token stream enumerated over every token kind.
MaxTokens == 2

\* Longest inline child stream enumerated over every inline kind.
MaxArbChildren == 2

\* Longest matched inline child stream of a paragraph.
MaxChildren == 4

\* Longest matched inline child stream of a heading or of a list item.
MaxShortChildren == 3

\* Most items of one generated list.
MaxItems == 3

\* Longest literal content of a generated code block.
MaxCode == 3

\* ----------------------------------------------------------- Python helpers

NL == "\n"

At(s, k) == s[k + 1]

RECURSIVE Concat(_)
\* "".join(parts)
Concat(parts) ==
    IF parts = <<>> THEN <<>> ELSE Head(parts) \o Concat(Tail(parts))

HasNewline(text) == \E k \in 1..Len(text) : text[k] = NL

RECURSIVE SplitFrom(_, _, _)
\* text.split("\n"), scanning from position k with the part read so far
SplitFrom(text, k, part) ==
    IF k > Len(text) THEN <<part>>
    ELSE IF text[k] = NL THEN <<part>> \o SplitFrom(text, k + 1, <<>>)
    ELSE SplitFrom(text, k + 1, Append(part, text[k]))

Split(text) == SplitFrom(text, 1, <<>>)

\* rstrip that takes one trailing newline only
RStripOneNL(s) ==
    IF s # <<>> /\ s[Len(s)] = NL THEN SubSeq(s, 1, Len(s) - 1) ELSE s

RECURSIVE RStripNL(_)
\* s.rstrip("\n"): every trailing newline goes
RStripNL(s) ==
    IF s # <<>> /\ s[Len(s)] = NL THEN RStripNL(SubSeq(s, 1, Len(s) - 1)) ELSE s

DigitChar == <<"0", "1", "2", "3", "4", "5", "6", "7", "8", "9">>

RECURSIVE IntToStr(_)
\* str(n) for n >= 0
IntToStr(n) ==
    IF n < 10 THEN <<DigitChar[n + 1]>>
    ELSE IntToStr(n \div 10) \o <<DigitChar[(n % 10) + 1]>>

\* ------------------------------------------------------------------ tokens

\* markdown_it.token.Token, the attributes the converter reads
Token(type) ==
    [type |-> type, tag |-> "", content |-> <<>>, info |-> <<>>,
     has_href |-> FALSE, href |-> <<>>, children |-> <<>>]

\* ------------------------------------------------------- output elements

\* One dict of a line; a key the dict does not hold is the empty value.
Elem(tag, text) ==
    [tag |-> tag, text |-> text, style |-> <<>>, href |-> <<>>, language |-> <<>>]

StyledElem(text, styles) == [Elem("text", text) EXCEPT !.style = styles]

EmptyText == Elem("text", <<>>)

\* ---------------------------------------------------------- inline walker

RECURSIVE StyledLoop(_, _, _, _)
\* the while loop of _process_styled: [i, text_parts] when it ends
StyledLoop(children, k, tag_type, text_parts) ==
    IF k < Len(children) /\ At(children, k).type # tag_type \o "_close"
    THEN StyledLoop(children, k + 1, tag_type,
                    IF At(children, k).type \in {"text", "code_inline"}
                    THEN Append(text_parts, At(children, k).content)
                    ELSE text_parts)
    ELSE [i |-> k, text_parts |-> text_parts]

ProcessStyled(children, start_idx, tag_type, styles) ==
    LET r == StyledLoop(children, start_idx + 1, tag_type, <<>>)
    IN  [next |-> r.i + 1, elem |-> StyledElem(Concat(r.text_parts), styles)]

RECURSIVE LinkLoop(_, _, _)
\* the while loop of _process_link
LinkLoop(children, k, text_parts) ==
    IF k < Len(children) /\ At(children, k).type # "link_close"
    THEN LinkLoop(children, k + 1,
                  IF At(children, k).type = "text"
                  THEN Append(text_parts, At(children, k).content)
                  ELSE text_parts)
    ELSE [i |-> k, text_parts |-> text_parts]

\* link_open.attrGet("href") or ""
AttrHref(token) == IF token.has_href THEN token.href ELSE <<>>

ProcessLink(children, start_idx) ==
    LET href == AttrHref(At(children, start_idx))
        r == LinkLoop(children, start_idx + 1, <<>>)
        joined == Concat(r.text_parts)
        text == IF joined # <<>> THEN joined ELSE href
    IN  [next |-> r.i + 1,
         elem |-> [Elem("a", text) EXCEPT !.href = href]]

\* One iteration of the while loop of _process_inline at cursor k:
\* the new cursor and the elements appended.
InlineStep(children, k) ==
    LET child == At(children, k)
    IN  CASE child.type = "text" ->
                [next |-> k + 1, out |-> <<Elem("text", child.content)>>]
          [] child.type = "code_inline" ->
                [next |-> k + 1, out |-> <<StyledElem(child.content, <<"code">>)>>]
          [] child.type = "strong_open" ->
                LET r == ProcessStyled(children, k, "strong", <<"bold">>)
                IN  [next |-> r.next, out |-> <<r.elem>>]
          [] child.type = "em_open" ->
                LET r == ProcessStyled(children, k, "em", <<"italic">>)
                IN  [next |-> r.next, out |-> <<r.elem>>]
          [] child.type = "s_open" ->
                LET r == ProcessStyled(children, k, "s", <<"lineThrough">>)
                IN  [next |-> r.next, out |-> <<r.elem>>]
          [] child.type = "link_open" ->
                LET r == ProcessLink(children, k)
                IN  [next |-> r.next, out |-> <<r.elem>>]
          [] child.type \in {"softbreak", "hardbreak"} ->
                [next |-> k + 1, out |-> <<Elem("text", <<NL>>)>>]
          [] OTHER ->
                [next |-> k + 1, out |-> <<>>]

RECURSIVE InlineLoop(_, _, _)
InlineLoop(children, k, elements) ==
    IF k < Len(children)
    THEN LET s == InlineStep(children, k)
         IN  InlineLoop(children, s.next, elements \o s.out)
    ELSE elements

ProcessInline(inline_token) ==
    IF inline_token.children = <<>> THEN <<EmptyText>>
    ELSE LET elements == InlineLoop(inline_token.children, 0, <<>>)
         IN  IF elements # <<>> THEN elements ELSE <<EmptyText>>

\* ------------------------------------------------------------- handlers

\* The result of a block handler: the next cursor and its lines, or the
\* IndexError that tokens[inline_idx] raises past the end of the stream.
Raised == [err |-> TRUE, next |-> 0, lines |-> <<>>]

Returned(next, lines) == [err |-> FALSE, next |-> next, lines |-> lines]

\* elem["style"] = elem.get("style", []) + ["bold"] for every text element
BoldAll(elements) ==
    [k \in 1..Len(elements) |->
        IF elements[k].tag = "text"
        THEN [elements[k] EXCEPT !.style = @ \o <<"bold">>]
        ELSE elements[k]]

\* int(heading_open.tag[1]): "h1" -> 1, "h2" -> 2, ...
HeadingLevel(tag) ==
    CASE tag = "h1" -> 1 [] tag = "h2" -> 2 [] tag = "h3" -> 3
      [] tag = "h4" -> 4 [] tag = "h5" -> 5 [] tag = "h6" -> 6

\* level is computed and not used: the line does not depend on it.
ProcessHeading(toks, start_idx) ==
    LET level == HeadingLevel(At(toks, start_idx).tag)
        inline_idx == start_idx + 1
    IN  IF inline_idx >= Len(toks) THEN Raised
        ELSE Returned(inline_idx + 2,
                      <<BoldAll(ProcessInline(At(toks, inline_idx)))>>)

RECURSIVE PartsLoopNoGuard(_, _, _, _, _)
\* PartsLoop flushing the line buffer without the "if current_line" test
PartsLoopNoGuard(elem, parts, k, lines, current_line) ==
    IF k > Len(parts) THEN [lines |-> lines, current_line |-> current_line]
    ELSE LET cur == IF parts[k] # <<>>
                    THEN Append(current_line, [elem EXCEPT !.text = parts[k]])
                    ELSE current_line
         IN  IF k < Len(parts)
             THEN PartsLoopNoGuard(elem, parts, k + 1, Append(lines, cur), <<>>)
             ELSE PartsLoopNoGuard(elem, parts, k + 1, lines, cur)

RECURSIVE PartsLoop(_, _, _, _, _)
\* for i, part in enumerate(parts), from part k (1-based here)
PartsLoop(elem, parts, k, lines, current_line) ==
    IF k > Len(parts) THEN [lines |-> lines, current_line |-> current_line]
    ELSE LET cur == IF parts[k] # <<>>
                    THEN Append(current_line, [elem EXCEPT !.text = parts[k]])
                    ELSE current_line
         IN  IF k < Len(parts)
             THEN PartsLoop(elem, parts, k + 1,
                            IF cur # <<>> THEN Append(lines, cur) ELSE lines,
                            <<>>)
             ELSE PartsLoop(elem, parts, k + 1, lines, cur)

\* ReflowLoop taking every element as newline-free
ReflowLoopNoSplit(elements, k, lines, current_line) ==
    [lines |-> lines,
     current_line |-> current_line \o SubSeq(elements, k, Len(elements))]

RECURSIVE ReflowLoop(_, _, _, _)
\* for elem in elements
ReflowLoop(elements, k, lines, current_line) ==
    IF k > Len(elements) THEN [lines |-> lines, current_line |-> current_line]
    ELSE LET elem == elements[k]
         IN  IF elem.tag = "text" /\ HasNewline(elem.text)
             THEN LET r == PartsLoop(elem, Split(elem.text), 1, lines, current_line)
                  IN  ReflowLoop(elements, k + 1, r.lines, r.current_line)
             ELSE ReflowLoop(elements, k + 1, lines, Append(current_line, elem))

\* The lines _process_paragraph makes of the inline elements.
Reflow(elements) ==
    LET r == ReflowLoop(elements, 1, <<>>, <<>>)
        lines == IF r.current_line # <<>>
                 THEN Append(r.lines, r.current_line) ELSE r.lines
    IN  IF lines = <<>> THEN <<<<EmptyText>>>> ELSE lines

ProcessParagraph(toks, start_idx) ==
    LET inline_idx == start_idx + 1
    IN  IF inline_idx >= Len(toks) THEN Raised
        ELSE Returned(inline_idx + 2, Reflow(ProcessInline(At(toks, inline_idx))))

BULLET == "bullet-glyph"

\* prefix = f"{item_num}. " if ordered else "(bullet) "
Prefix(ordered, item_num) ==
    IF ordered THEN IntToStr(item_num) \o <<".", " ">> ELSE <<BULLET, " ">>

AddPrefix(elements, prefix) ==
    IF elements # <<>> /\ elements[1].tag = "text"
    THEN [elements EXCEPT ![1].text = prefix \o @]
    ELSE <<Elem("text", prefix)>> \o elements

RECURSIVE ItemLoop(_, _, _, _, _)
\* the while loop of _process_list_item
ItemLoop(toks, k, ordered, item_num, item_content) ==
    IF k < Len(toks) /\ At(toks, k).type # "list_item_close"
    THEN IF At(toks, k).type = "paragraph_open"
         THEN IF k + 1 >= Len(toks) THEN Raised
              ELSE ItemLoop(toks, k + 3, ordered, item_num,
                            Append(item_content,
                                   AddPrefix(ProcessInline(At(toks, k + 1)),
                                             Prefix(ordered, item_num))))
         ELSE ItemLoop(toks, k + 1, ordered, item_num, item_content)
    ELSE Returned(k, item_content)

ProcessListItem(toks, start_idx, ordered, item_num) ==
    LET r == ItemLoop(toks, start_idx + 1, ordered, item_num, <<>>)
    IN  IF r.err THEN Raised ELSE Returned(r.next + 1, r.lines)

CloseType(ordered) == IF ordered THEN "ordered_list_close" ELSE "bullet_list_close"

RECURSIVE ListLoop(_, _, _, _, _)
\* the while loop of _process_list
ListLoop(toks, k, ordered, item_num, lines) ==
    IF k < Len(toks) /\ At(toks, k).type # CloseType(ordered)
    THEN IF At(toks, k).type = "list_item_open"
         THEN LET r == ProcessListItem(toks, k, ordered, item_num)
              IN  IF r.err THEN Raised
                  ELSE ListLoop(toks, r.next, ordered, item_num + 1,
                                lines \o r.lines)
         ELSE ListLoop(toks, k + 1, ordered, item_num, lines)
    ELSE Returned(k, lines)

ProcessList(toks, start_idx, ordered) ==
    LET r == ListLoop(toks, start_idx + 1, ordered, 1, <<>>)
    IN  IF r.err THEN Raised ELSE Returned(r.next + 1, r.lines)

\* language = token.info or ""; code = token.content.rstrip("\n")
ProcessCodeBlock(token) ==
    <<[Elem("code_block", RStripNL(token.content)) EXCEPT !.language = token.info]>>

\* ------------------------------------------------- the parser's token streams
\* tokens = self.md.parse(markdown_text): the streams the converter is given.

LetterSeq == <<"a", "b", "c", "d", "e", "f", "g", "h">>

\* The literal text of the leaf at position p: distinct along one stream.
Letter(p) == LetterSeq[((p - 1) % Len(LetterSeq)) + 1]

UpperSeq == <<"A", "B", "C", "D", "E", "F", "G", "H">>

Upper(p) == UpperSeq[((p - 1) % Len(UpperSeq)) + 1]

SpanKinds == {"strong", "em", "s", "link"}

InlineLeaves == {"text", "text_nl", "code_inline", "softbreak", "hardbreak", "image"}

InlineKinds ==
    InlineLeaves \cup {k \o "_open" : k \in SpanKinds} \cup {k \o "_close" : k \in SpanKinds}

\* The inline token of kind at position p; text_nl is a text leaf whose
\* content holds a newline (the entity &#10; decodes to one).
MkChild(kind, p) ==
    CASE kind = "text" -> [Token("text") EXCEPT !.content = <<Letter(p)>>]
      [] kind = "text_nl" ->
            [Token("text") EXCEPT !.content = <<Letter(p), NL, Upper(p)>>]
      [] kind = "code_inline" -> [Token("code_inline") EXCEPT !.content = <<Letter(p)>>]
      [] kind = "link_open" ->
            [Token("link_open") EXCEPT !.has_href = TRUE, !.href = <<"u">>]
      [] OTHER -> Token(kind)

MkChildren(kinds) == [p \in 1..Len(kinds) |-> MkChild(kinds[p], p)]

\* Every sequence over S of length at most n.
SeqsUpTo(S, n) == UNION {[1..m -> S] : m \in 0..n}

RECURSIVE NestedSeqs(_)
\* Every inline kind sequence of length n whose spans are matched and nested.
NestedSeqs(n) ==
    IF n = 0 THEN {<<>>}
    ELSE {<<l>> \o r : l \in InlineLeaves, r \in NestedSeqs(n - 1)}
         \cup (IF n < 2 THEN {}
               ELSE UNION {{<<k \o "_open">> \o a \o <<k \o "_close">> \o b :
                                k \in SpanKinds, a \in NestedSeqs(j),
                                b \in NestedSeqs(n - 2 - j)} : j \in 0..(n - 2)})

NestedUpTo(n) == UNION {NestedSeqs(m) : m \in 0..n}

HeadingTags == {"h1", "h2", "h3", "h4", "h5", "h6"}

BlockKinds ==
    HeadingTags \cup
    {"heading_close", "paragraph_open", "paragraph_close", "inline",
     "bullet_list_open", "bullet_list_close", "ordered_list_open",
     "ordered_list_close", "list_item_open", "list_item_close",
     "fence", "code_block", "hr", "html_block"}

Inline(children) == [Token("inline") EXCEPT !.children = children]

\* The block token of kind at position p of a stream.
MkToken(kind, p) ==
    CASE kind \in HeadingTags -> [Token("heading_open") EXCEPT !.tag = kind]
      [] kind = "inline" ->
            Inline(<<[Token("text") EXCEPT !.content = <<"t">> \o IntToStr(p)]>>)
      [] kind = "fence" ->
            [Token("fence") EXCEPT !.content = <<Letter(p), NL>>,
                                   !.info = <<"p", "y">>]
      [] kind = "code_block" ->
            [Token("code_block") EXCEPT !.content = <<Letter(p), NL>>]
      [] OTHER -> Token(kind)

MkTokens(kinds) == [p \in 1..Len(kinds) |-> MkToken(kinds[p], p)]

\* Any tokens at all, matched or not.
ArbitraryStreams == {MkTokens(ks) : ks \in SeqsUpTo(BlockKinds, MaxTokens)}

ParagraphChildren ==
    {MkChildren(ks) :
        ks \in NestedUpTo(MaxChildren) \cup SeqsUpTo(InlineKinds, MaxArbChildren)}

ShortChildren ==
    {MkChildren(ks) :
        ks \in NestedUpTo(MaxShortChildren) \cup SeqsUpTo(InlineKinds, MaxArbChildren)}

ParagraphDocs ==
    {<<Token("paragraph_open"), Inline(ch), Token("paragraph_close")>> :
        ch \in ParagraphChildren}

HeadingDocs ==
    {<<MkToken(h, 1), Inline(ch), Token("heading_close")>> :
        h \in HeadingTags, ch \in ShortChildren}

CodeDocs ==
    {<<[Token(t) EXCEPT !.content = c, !.info = l]>> :
        t \in {"fence", "code_block"}, c \in SeqsUpTo({"x", NL}, MaxCode),
        l \in {<<>>, <<"p", "y">>}}

ListOpen(ordered) == IF ordered THEN "ordered_list_open" ELSE "bullet_list_open"

ItemKinds(inner) ==
    <<"list_item_open", "paragraph_open", "inline", "paragraph_close">>
    \o inner \o <<"list_item_close">>

RECURSIVE FlatItems(_)
\* n items holding one paragraph each
FlatItems(n) == IF n = 0 THEN <<>> ELSE ItemKinds(<<>>) \o FlatItems(n - 1)

ListKinds(ordered, items) == <<ListOpen(ordered)>> \o items \o <<CloseType(ordered)>>

\* A list of either kind with 1..MaxItems items of one paragraph each.
InnerLists == {ListKinds(o, FlatItems(n)) : o \in BOOLEAN, n \in 1..MaxItems}

\* Lists of 1..MaxItems items of one paragraph each, one of which may hold
\* a nested list after its paragraph.
ListDocs ==
    {MkTokens(ListKinds(o, FlatItems(m))) : o \in BOOLEAN, m \in 1..MaxItems}
    \cup
    UNION {{MkTokens(ListKinds(o, FlatItems(j - 1) \o ItemKinds(inner)
                                  \o FlatItems(m - j))) :
                o \in BOOLEAN, inner \in InnerLists, j \in 1..m} : m \in 1..MaxItems}

\* A list of one item whose paragraph holds any of the short inline streams.
ItemDocs ==
    {<<Token(ListOpen(o)), Token("list_item_open"), Token("paragraph_open"),
       Inline(ch), Token("paragraph_close"), Token("list_item_close"),
       Token(CloseType(o))>> : o \in BOOLEAN, ch \in ShortChildren}

\* ------------------------------------------------------- _process_tokens

Init ==
    /\ \/ tokens \in ArbitraryStreams
       \/ tokens \in ParagraphDocs
       \/ tokens \in HeadingDocs
       \/ tokens \in CodeDocs
       \/ tokens \in ListDocs
       \/ tokens \in ItemDocs
    /\ i = 0
    /\ content = <<>>
    /\ pc = "scan"
    /\ iters = 0

\* One iteration of the while loop on a token of one of the given types.
Scanning(types) ==
    /\ pc = "scan"
    /\ i < Len(tokens)
    /\ At(tokens, i).type \in types
    /\ iters' = iters + 1
    /\ UNCHANGED tokens

\* i, lines = handler(...); content.extend(lines), or the handler's IndexError
\* leaves _process_tokens and convert.
Deliver(r) ==
    IF r.err
    THEN pc' = "raised" /\ UNCHANGED <<i, content>>
    ELSE i' = r.next /\ content' = content \o r.lines /\ pc' = "scan"

Heading ==
    /\ Scanning({"heading_open"})
    /\ Deliver(ProcessHeading(tokens, i))

Paragraph ==
    /\ Scanning({"paragraph_open"})
    /\ Deliver(ProcessParagraph(tokens, i))

BulletList ==
    /\ Scanning({"bullet_list_open"})
    /\ Deliver(ProcessList(tokens, i, FALSE))

OrderedList ==
    /\ Scanning({"ordered_list_open"})
    /\ Deliver(ProcessList(tokens, i, TRUE))

CodeBlock ==
    /\ Scanning({"fence", "code_block"})
    /\ Deliver(Returned(i + 1, <<ProcessCodeBlock(At(tokens, i))>>))

Hr ==
    /\ Scanning({"hr"})
    /\ Deliver(Returned(i + 1, <<<<Elem("hr", <<>>)>>>>))

HandledTypes ==
    {"heading_open", "paragraph_open", "bullet_list_open", "ordered_list_open",
     "fence", "code_block", "hr"}

\* The else branch without its i += 1.
SkipStuck ==
    /\ pc = "scan"
    /\ i < Len(tokens)
    /\ At(tokens, i).type \notin HandledTypes
    /\ iters' = iters + 1
    /\ UNCHANGED <<tokens, i, content, pc>>

Skip ==
    /\ pc = "scan"
    /\ i < Len(tokens)
    /\ At(tokens, i).type \notin HandledTypes
    /\ iters' = iters + 1
    /\ Deliver(Returned(i + 1, <<>>))
    /\ UNCHANGED tokens

\* Return without the "ensure at least one line" fallback.
ReturnAsIs ==
    /\ pc = "scan"
    /\ i >= Len(tokens)
    /\ pc' = "returned"
    /\ UNCHANGED <<tokens, i, iters, content>>

\* The loop has ended: ensure at least one line, return content.
Return ==
    /\ pc = "scan"
    /\ i >= Len(tokens)
    /\ content' = IF content = <<>> THEN <<<<EmptyText>>>> ELSE content
    /\ pc' = "returned"
    /\ UNCHANGED <<tokens, i, iters>>

Next ==
    \/ Heading
    \/ Paragraph
    \/ BulletList
    \/ OrderedList
    \/ CodeBlock
    \/ Hr
    \/ Skip
    \/ Return

Spec == Init /\ [][Next]_vars

\* ---------------------------------------------- the input contract (section 3)

OpenTypes ==
    {"heading_open", "paragraph_open", "bullet_list_open", "ordered_list_open",
     "list_item_open", "strong_open", "em_open", "s_open", "link_open"}

CloseTypes ==
    {"heading_close", "paragraph_close", "bullet_list_close", "ordered_list_close",
     "list_item_close", "strong_close", "em_close", "s_close", "link_close"}

CloseOf(open) ==
    CASE open = "heading_open" -> "heading_close"
      [] open = "paragraph_open" -> "paragraph_close"
      [] open = "bullet_list_open" -> "bullet_list_close"
      [] open = "ordered_list_open" -> "ordered_list_close"
      [] open = "list_item_open" -> "list_item_close"
      [] open = "strong_open" -> "strong_close"
      [] open = "em_open" -> "em_close"
      [] open = "s_open" -> "s_close"
      [] open = "link_open" -> "link_close"

ListOpens == {"bullet_list_open", "ordered_list_open"}

RECURSIVE MatchedFrom(_, _, _)
\* Every open has its close, pairs nest and do not cross; an item sits
\* directly in a list and a list holds only items.  stack: the opens not
\* yet closed, innermost first.
MatchedFrom(seq, k, stack) ==
    IF k > Len(seq) THEN stack = <<>>
    ELSE LET t == seq[k].type
             inList == stack # <<>> /\ Head(stack) \in ListOpens
         IN  IF t \in OpenTypes
             THEN /\ (t = "list_item_open") = inList
                  /\ MatchedFrom(seq, k + 1, <<t>> \o stack)
             ELSE IF t \in CloseTypes
             THEN /\ stack # <<>>
                  /\ CloseOf(Head(stack)) = t
                  /\ MatchedFrom(seq, k + 1, Tail(stack))
             ELSE ~inList /\ MatchedFrom(seq, k + 1, stack)

Matched(seq) == MatchedFrom(seq, 1, <<>>)

\* The stream of a conforming parser: matched, every heading and paragraph
\* is open, inline container, close, and inline children are matched.
WellFormed(toks) ==
    /\ Matched(toks)
    /\ \A k \in 1..Len(toks) :
          /\ toks[k].type \in {"heading_open", "paragraph_open"} =>
                /\ k + 2 <= Len(toks)
                /\ toks[k + 1].type = "inline"
                /\ toks[k + 2].type = CloseOf(toks[k].type)
          /\ toks[k].type = "inline" =>
                /\ k > 1
                /\ toks[k - 1].type \in {"heading_open", "paragraph_open"}
                /\ Matched(toks[k].children)

RECURSIVE MatchFrom(_, _, _)
\* The 0-based index of the close that brings the depth back to 0.
MatchFrom(seq, k, depth) ==
    IF k >= Len(seq) THEN Len(seq)
    ELSE IF At(seq, k).type \in OpenTypes THEN MatchFrom(seq, k + 1, depth + 1)
    ELSE IF At(seq, k).type \in CloseTypes
    THEN IF depth = 1 THEN k ELSE MatchFrom(seq, k + 1, depth - 1)
    ELSE MatchFrom(seq, k + 1, depth)

\* The 0-based index of the close matching the open at 0-based index j.
MatchClose(seq, j) == MatchFrom(seq, j + 1, 1)

Range(s) == {s[k] : k \in 1..Len(s)}

TypesOf(seq) == {seq[k].type : k \in 1..Len(seq)}

IsParagraphDoc ==
    /\ Len(tokens) = 3
    /\ tokens[1].type = "paragraph_open"
    /\ WellFormed(tokens)

IsHeadingDoc ==
    /\ Len(tokens) = 3
    /\ tokens[1].type = "heading_open"
    /\ WellFormed(tokens)

IsCodeDoc == Len(tokens) = 1 /\ tokens[1].type \in {"fence", "code_block"}

\* One list is the whole document.
IsListDoc ==
    /\ WellFormed(tokens)
    /\ tokens # <<>>
    /\ tokens[1].type \in ListOpens
    /\ MatchClose(tokens, 0) = Len(tokens) - 1

\* ------------------------------------------------------------------ claims

\* No token of the stream is of a type the dispatcher handles.
OnlySkipped == TypesOf(tokens) \cap HandledTypes = {}

\* C1: whatever the token stream, the line list _process_tokens returns is
\* not empty; the empty stream and a stream of skipped tokens only give
\* exactly one line holding exactly one text element with the empty text.
C1_NeverEmpty ==
    pc = "returned" =>
        /\ Len(content) >= 1
        /\ OnlySkipped => content = <<<<Elem("text", <<>>)>>>>

\* C1 witnesses: a non-empty stream of skipped tokens only has returned the
\* single empty line.
C1_Witness ==
    /\ pc = "returned"
    /\ Len(tokens) = MaxTokens
    /\ OnlySkipped
    /\ iters = Len(tokens)
    /\ content = <<<<Elem("text", <<>>)>>>>

\* The trailing newlines of s.
RECURSIVE TrailingNLs(_)
TrailingNLs(s) ==
    IF s # <<>> /\ s[Len(s)] = NL THEN 1 + TrailingNLs(SubSeq(s, 1, Len(s) - 1)) ELSE 0

\* C6 as stated: the code_block element's text is the token's content with
\* at most one trailing newline removed and nothing else removed, and its
\* language is the info string.
C6_StripsOneNewline ==
    (pc = "returned" /\ IsCodeDoc) =>
        LET c == tokens[1].content
            n == IF TrailingNLs(c) >= 1 THEN 1 ELSE 0
        IN  /\ Len(content) = 1 /\ Len(content[1]) = 1
            /\ content[1][1].tag = "code_block"
            /\ content[1][1].text = SubSeq(c, 1, Len(c) - n)
            /\ content[1][1].language = tokens[1].info

\* C6 amended: the text is the token's content with all of its trailing
\* newlines removed and no other character removed; the language is the
\* info string.
C6_StripsAllNewlines ==
    (pc = "returned" /\ IsCodeDoc) =>
        LET c == tokens[1].content
            t == content[1][1].text
        IN  /\ Len(content) = 1 /\ Len(content[1]) = 1
            /\ content[1][1].tag = "code_block"
            /\ Len(t) <= Len(c)
            /\ t = SubSeq(c, 1, Len(t))
            /\ \A k \in (Len(t) + 1)..Len(c) : c[k] = NL
            /\ (t # <<>> => t[Len(t)] # NL)
            /\ content[1][1].language = tokens[1].info

\* C6 witness: a fence whose content ends in two newlines has lost both.
C6_Witness ==
    /\ pc = "returned"
    /\ IsCodeDoc
    /\ tokens[1].type = "fence"
    /\ tokens[1].info # <<>>
    /\ tokens[1].content = <<"x", NL, NL>>
    /\ content[1][1].text = <<"x">>

Children == tokens[2].children

Breaks == {"softbreak", "hardbreak"}

RECURSIVE RemoveNL(_)
RemoveNL(text) ==
    IF text = <<>> THEN <<>>
    ELSE (IF Head(text) = NL THEN <<>> ELSE <<Head(text)>>) \o RemoveNL(Tail(text))

RECURSIVE TextOf(_)
\* The text a sequence of elements shows, the newlines of its text elements left out.
TextOf(elements) ==
    IF elements = <<>> THEN <<>>
    ELSE (IF Head(elements).tag = "text"
          THEN RemoveNL(Head(elements).text) ELSE Head(elements).text)
         \o TextOf(Tail(elements))

RECURSIVE Flatten(_)
Flatten(lines) == IF lines = <<>> THEN <<>> ELSE Head(lines) \o Flatten(Tail(lines))

\* The line that shows the n-th character of the document.
LineOfChar(lines, n) ==
    CHOOSE l \in 1..Len(lines) :
        /\ Len(TextOf(Flatten(SubSeq(lines, 1, l)))) >= n
        /\ Len(TextOf(Flatten(SubSeq(lines, 1, l - 1)))) < n

\* elements[b] is what the inline walker makes of a soft or hard break.
IsBreakElem(e) == e.tag = "text" /\ e.text = <<NL>> /\ e.style = <<>>

\* What C3 says of the lines of a paragraph, for the element tags in tags
\* that may hold no newline.
ReflowsBreaks(tags) ==
    LET elements == ProcessInline(tokens[2])
        total == Len(TextOf(elements))
    IN  /\ \A l \in 1..Len(content) : \A k \in 1..Len(content[l]) :
              content[l][k].tag \in tags => ~HasNewline(content[l][k].text)
        /\ \A b \in 1..Len(elements) :
              LET pre == Len(TextOf(SubSeq(elements, 1, b - 1)))
              IN  (IsBreakElem(elements[b]) /\ pre >= 1 /\ pre < total) =>
                      LineOfChar(content, pre) < LineOfChar(content, pre + 1)
        /\ TextOf(Flatten(content)) = TextOf(elements)

ParagraphWithBreaks ==
    /\ pc = "returned"
    /\ IsParagraphDoc
    /\ TypesOf(Children) \cap Breaks # {}

\* C3 as stated: for a paragraph whose inline children hold soft or hard
\* breaks, no element of any returned line has a newline in its text, the
\* elements before a break and those after it are on different lines in
\* their order, and the text apart from newlines is neither lost nor doubled.
C3_NoNewlineInAnyElement ==
    ParagraphWithBreaks => ReflowsBreaks({"text", "a"})

\* C3 amended: the same, but only the text elements are free of newlines: a
\* link element is appended as it is, with any newline its text holds.
C3_NoNewlineInTextElements ==
    ParagraphWithBreaks => ReflowsBreaks({"text"})

\* C3 witness: text A, break, text B has returned two lines, A then B.
C3_Witness ==
    /\ ParagraphWithBreaks
    /\ Len(Children) = 3
    /\ Children[1].type = "text" /\ Children[3].type = "text"
    /\ Children[1].content = <<"a">> /\ Children[3].content = <<"c">>
    /\ Len(content) = 2
    /\ content[1][Len(content[1])].text = <<"a">>
    /\ content[2][1].text = <<"c">>

\* The maximal runs of text leaves in a child stream.
TextRuns(children) ==
    Cardinality({k \in 1..Len(children) :
                    /\ children[k].type = "text"
                    /\ (k = 1 \/ children[k - 1].type # "text")})

\* C10: every line of the document returned for a well-formed stream holds
\* at least one element; a paragraph of text leaves and breaks gives one
\* line per run of text and none for an empty segment, and a paragraph of
\* breaks only gives the single line with one empty text element.
C10_NoEmptyLine ==
    (pc = "returned" /\ WellFormed(tokens)) =>
        /\ \A l \in 1..Len(content) : Len(content[l]) >= 1
        /\ (/\ IsParagraphDoc
            /\ Children # <<>>
            /\ TypesOf(Children) \subseteq Breaks \cup {"text"}
            /\ \A k \in 1..Len(Children) : ~HasNewline(Children[k].content)) =>
               /\ TextRuns(Children) >= 1 => Len(content) = TextRuns(Children)
               /\ TextRuns(Children) = 0 => content = <<<<Elem("text", <<>>)>>>>

\* C10 witness: break, text, break, break has returned the one line of the text.
C10_Witness ==
    /\ pc = "returned"
    /\ IsParagraphDoc
    /\ Len(Children) = 4
    /\ Children[2].type = "text"
    /\ {Children[1].type, Children[3].type, Children[4].type} \subseteq Breaks
    /\ content = <<<<Elem("text", Children[2].content)>>>>

\* Every delegate called at a cursor returns a greater one.
DelegatesAdvance ==
    \A k \in 0..(Len(tokens) - 1) :
        LET t == At(tokens, k).type
        IN  /\ t = "heading_open" =>
                  (ProcessHeading(tokens, k).err \/ ProcessHeading(tokens, k).next > k)
            /\ t = "paragraph_open" =>
                  (ProcessParagraph(tokens, k).err \/ ProcessParagraph(tokens, k).next > k)
            /\ t \in ListOpens =>
                  \A o \in BOOLEAN :
                      ProcessList(tokens, k, o).err \/ ProcessList(tokens, k, o).next > k
            /\ t = "list_item_open" =>
                  \A o \in BOOLEAN :
                      \/ ProcessListItem(tokens, k, o, 1).err
                      \/ ProcessListItem(tokens, k, o, 1).next > k
            /\ t = "inline" =>
                  \A c \in 0..(Len(At(tokens, k).children) - 1) :
                      InlineStep(At(tokens, k).children, c).next > c

\* C9: for a well-formed stream the conversion terminates: the cursor of
\* the dispatcher grows on every iteration, every delegate (inline walker,
\* list and list-item handlers included) returns an index greater than the
\* one it was given, no handler raises, and the cursor is never behind
\* the number of iterations made, so that the loop ends within as many
\* iterations as there are tokens.
C9_Terminates ==
    /\ [][(WellFormed(tokens) /\ iters' = iters + 1) => (pc' = "scan" /\ i' > i)]_vars
    /\ [](WellFormed(tokens) =>
            /\ DelegatesAdvance
            /\ iters <= Len(tokens)
            /\ pc \in {"scan", "returned"}
            /\ i >= iters
            /\ (iters = Len(tokens) => i >= Len(tokens)))

\* C9 witness: a list holding a nested list has been converted in one
\* iteration of the dispatcher.
C9_Witness ==
    /\ pc = "returned"
    /\ IsListDoc
    /\ Cardinality({k \in 1..Len(tokens) : tokens[k].type \in ListOpens}) = 2
    /\ iters >= 1
    /\ i >= Len(tokens)

NoDuplicates(s) == \A a, b \in 1..Len(s) : a # b => s[a] # s[b]

StyledOpens == {"strong_open", "em_open", "s_open"}

StyledCloses == {"strong_close", "em_close", "s_close"}

\* C2: for a heading of any level whose inline content mixes plain text,
\* code spans and bold, italic and strikethrough spans, every text element
\* of the heading's line carries bold, keeps the styles it had, and lists
\* no style more than once.
C2_HeadingBoldOnce ==
    (/\ pc = "returned"
     /\ IsHeadingDoc
     /\ tokens[1].tag \in HeadingTags
     /\ TypesOf(Children) \subseteq {"text", "code_inline"} \cup StyledOpens \cup StyledCloses) =>
        LET had == ProcessInline(tokens[2])
            line == content[1]
        IN  /\ Len(content) = 1
            /\ Len(line) = Len(had)
            /\ \A k \in 1..Len(line) :
                  line[k].tag = "text" =>
                      /\ "bold" \in Range(line[k].style)
                      /\ Range(had[k].style) \subseteq Range(line[k].style)
                      /\ NoDuplicates(line[k].style)

RECURSIVE StackAt(_, _)
\* The 0-based indices of the opens not yet closed before 0-based index k,
\* innermost first.
StackAt(seq, k) ==
    IF k = 0 THEN <<>>
    ELSE LET below == StackAt(seq, k - 1)
             t == At(seq, k - 1).type
         IN  IF t \in OpenTypes THEN <<k - 1>> \o below
             ELSE IF t \in CloseTypes /\ below # <<>> THEN Tail(below)
             ELSE below

\* The 0-based indices of the list_item_open tokens directly in the list
\* opened at 0-based index j.
ItemsOfList(seq, j) ==
    {k \in 0..(Len(seq) - 1) :
        /\ At(seq, k).type = "list_item_open"
        /\ StackAt(seq, k) # <<>>
        /\ Head(StackAt(seq, k)) = j}

\* The number of the item at k among the items of its list.
NumberOf(seq, j, k) == Cardinality({m \in ItemsOfList(seq, j) : m <= k})

\* The text of the paragraph that opens the item at k.
ItemText(seq, k) == Concat([c \in 1..Len(At(seq, k + 2).children) |->
                               At(seq, k + 2).children[c].content])

\* The lines whose first element shows text.
LinesShowing(text) == {l \in 1..Len(content) : content[l][1].text = text}

\* C4: the lines of the n items of an ordered list carry "1. " .. "n. " in
\* document order, the counter counting the items of that list only: the
\* items of a list nested in an item neither take nor use up its numbers.
C4_OrderedNumbering ==
    (/\ pc = "returned"
     /\ IsListDoc
     /\ tokens[1].type = "ordered_list_open"
     /\ \A k \in 1..Len(tokens) :
           tokens[k].type = "inline" => TypesOf(tokens[k].children) = {"text"}) =>
        /\ \A k \in ItemsOfList(tokens, 0) :
              LinesShowing(Prefix(TRUE, NumberOf(tokens, 0, k)) \o ItemText(tokens, k)) # {}
        /\ \A k, m \in ItemsOfList(tokens, 0) :
              k < m =>
                  \A a \in LinesShowing(Prefix(TRUE, NumberOf(tokens, 0, k))
                                        \o ItemText(tokens, k)) :
                      \A b \in LinesShowing(Prefix(TRUE, NumberOf(tokens, 0, m))
                                            \o ItemText(tokens, m)) : a < b
        /\ \A j \in 1..(Len(tokens) - 1) :
              At(tokens, j).type = "bullet_list_open" =>
                  \A k \in ItemsOfList(tokens, j) :
                      \A n \in 1..Len(tokens) :
                          LinesShowing(Prefix(TRUE, n) \o ItemText(tokens, k)) = {}

RECURSIVE VisitedFrom(_, _)
\* The cursors at which the loop of _process_inline reads a child.
VisitedFrom(children, c) ==
    IF c < Len(children)
    THEN {c} \cup VisitedFrom(children, InlineStep(children, c).next)
    ELSE {}

StyleOf(open) ==
    CASE open = "strong_open" -> <<"bold">>
      [] open = "em_open" -> <<"italic">>
      [] open = "s_open" -> <<"lineThrough">>

TagTypeOf(open) ==
    CASE open = "strong_open" -> "strong"
      [] open = "em_open" -> "em"
      [] open = "s_open" -> "s"

RECURSIVE LeafText(_, _, _)
\* The contents of the text and code-span leaves at 0-based indices a..b.
LeafText(children, a, b) ==
    IF a > b THEN <<>>
    ELSE (IF At(children, a).type \in {"text", "code_inline"}
          THEN At(children, a).content ELSE <<>>)
         \o LeafText(children, a + 1, b)

\* C5: called on a styled-span open of a well-formed child stream, the
\* sub-walker gives one text element with the text of all text and
\* code-span leaves between the open and its matching close, styled with
\* the outer span's style only, and the index just past that close, also
\* when spans (of the same kind too) are nested inside.
C5_StyledSpanToMatchingClose ==
    (/\ pc = "returned"
     /\ (IsParagraphDoc \/ IsHeadingDoc)) =>
        \A k \in VisitedFrom(Children, 0) :
            At(Children, k).type \in StyledOpens =>
                LET open == At(Children, k).type
                    close == MatchClose(Children, k)
                    r == ProcessStyled(Children, k, TagTypeOf(open), StyleOf(open))
                IN  /\ r.next = close + 1
                    /\ r.elem.tag = "text"
                    /\ r.elem.text = LeafText(Children, k + 1, close - 1)
                    /\ r.elem.style = StyleOf(open)

\* An open of seq that no later close matches.
HasUnclosedOpen(seq) ==
    \E k \in 0..(Len(seq) - 1) :
        /\ At(seq, k).type \in OpenTypes
        /\ \/ MatchClose(seq, k) = Len(seq)
           \/ At(seq, MatchClose(seq, k)).type # CloseOf(At(seq, k).type)

\* The streams C7 is about: an open with no matching close among the
\* tokens or among the children of an inline token, or a heading or
\* paragraph open as the last token.
Malformed ==
    \/ HasUnclosedOpen(tokens)
    \/ \E k \in 1..Len(tokens) : HasUnclosedOpen(tokens[k].children)
    \/ (tokens # <<>> /\ tokens[Len(tokens)].type \in {"heading_open", "paragraph_open"})

\* C7: on such a stream the conversion ends in a MalformedInput error and
\* never returns a document built from the partial scan.
C7_MalformedNeverReturns == Malformed => pc # "returned"

IsPrefixOf(p, text) == Len(p) <= Len(text) /\ SubSeq(text, 1, Len(p)) = p

\* The line begins with a text element that begins with a bullet or a number.
HasPrefix(line) ==
    /\ line # <<>>
    /\ line[1].tag = "text"
    /\ \/ IsPrefixOf(Prefix(FALSE, 1), line[1].text)
       \/ \E n \in 1..Len(tokens) : IsPrefixOf(Prefix(TRUE, n), line[1].text)

\* C8: on a well-formed stream the list handler stops at the close that
\* matches its open and returns the index just past it, nested lists
\* included, so that every paragraph of every item is a prefixed line and
\* none is left to the dispatcher.
C8_ListStopsAtMatchingClose ==
    (IsListDoc /\ iters >= 1) =>
        /\ iters = 1
        /\ i = MatchClose(tokens, 0) + 1
        /\ pc = "returned" =>
              /\ Len(content) >=
                    Cardinality({k \in 1..Len(tokens) : tokens[k].type = "paragraph_open"})
              /\ \/ content = <<<<Elem("text", <<>>)>>>>
                 \/ \A l \in 1..Len(content) : HasPrefix(content[l])

====
